---- MODULE Spec2Model ----
(***************************************************************************)
(* Model of mimo_composipy/laminate_class.py: the Laminate class, its      *)
(* constructor validation, the derived properties z_position, Q_layup, A,  *)
(* B, D (with their caches), print_ABD and __eq__.                         *)
(*                                                                         *)
(* Numbers.  The program computes with binary floating point (Python float *)
(* and numpy float64).  The model keeps that arithmetic with a scaled-down *)
(* significand of MantBits bits (53 in the program): every sum, difference *)
(* and product is rounded to the nearest representable value, ties to the  *)
(* even significand, with an unbounded exponent.  Binary floating point is *)
(* invariant under scaling by powers of two, so every quantity is held as  *)
(* an integer multiple of a power-of-two unit:                             *)
(*   - lengths (thickness, z) are counted in half thickness-units, so that *)
(*     the division by 2 of line 71 is exact, as it is in the program;     *)
(*   - B is held as 2*B (the factor 1/2 of line 118 is an exact scaling);  *)
(*   - D is held as 2^(MantBits+1)*D (the factor 1/3 of line 129 is the    *)
(*     rounded constant ThirdMant / 2^(MantBits+1)).                       *)
(***************************************************************************)
EXTENDS Integers, Sequences, FiniteSets, TLC

\* ---------------------------------------------------------------- bounds
MaxPlies == 3
MantBits == 3
MaxBad == 2
MaxMut == 1
CountCap == 2

\* ------------------------------------------------------ float arithmetic
Abs(x) == IF x < 0 THEN -x ELSE x

Min(a, b) == IF a < b THEN a ELSE b

RECURSIVE Pow2(_)
Pow2(n) == IF n = 0 THEN 1 ELSE 2 * Pow2(n - 1)

\* Integers below Radix in magnitude are all representable.
Radix == Pow2(MantBits)

\* The spacing of the representable values around the magnitude a.
RECURSIVE Quantum(_, _)
Quantum(a, q) == IF a < q * Radix THEN q ELSE Quantum(a, 2 * q)

Ulp(x) == Quantum(Abs(x), 1)

RoundAbs(a) ==
    LET q  == Quantum(a, 1)
        lo == (a \div q) * q
        r  == a - lo
    IN  IF 2 * r < q THEN lo
        ELSE IF 2 * r > q THEN lo + q
        ELSE IF (a \div q) % 2 = 0 THEN lo ELSE lo + q

RoundSigned(x) == IF x < 0 THEN -RoundAbs(-x) ELSE RoundAbs(x)

\* The result of one floating-point operation whose exact value is x (the
\* value of x is taken once, then rounded).
Fl(x) == CHOOSE r \in {RoundSigned(v) : v \in {x}} : TRUE

\* 1/3 as the program holds it: ThirdMant / 2^(MantBits+1).
ThirdMant == (Pow2(MantBits + 2) + 3) \div 6

\* ------------------------------------------------------------- Ply, data
Plies == {1, 2}

Angles == {0, 90}

PlyThickness(p) == IF p = 1 THEN 2 ELSE 6

PlyQ_0(p) ==
    IF p = 1 THEN << <<5, 1, 0>>, <<1, 3, 0>>, <<0, 0, 2>> >>
             ELSE << <<7, 2, 0>>, <<2, 4, 0>>, <<0, 0, 1>> >>

\* Python values that appear in a layup entry.
RealVal(a) == [t |-> "real", v |-> a]

PlyVal(p) == [t |-> "ply", v |-> p]

StrVal == [t |-> "str", v |-> 0]

\* An entry of the layup: a tuple of values, or a value without indexing.
TupleOf(items) == [indexable |-> TRUE, items |-> items]

Scalar == [indexable |-> FALSE, items |-> << >>]

Pair(a, p) == TupleOf(<<RealVal(a), PlyVal(p)>>)

Triple(a, p) == TupleOf(<<RealVal(a), PlyVal(p), StrVal>>)

\* The stacking entries of the model: ply 1 at both angles, ply 2 at 0.
Entries == {Pair(0, 1), Pair(90, 1), Pair(0, 2)}

BadEntries ==
    { Scalar, TupleOf(<< >>), TupleOf(<<RealVal(0)>>),
      TupleOf(<<StrVal, PlyVal(1)>>), TupleOf(<<RealVal(0), StrVal>>),
      Triple(0, 1) }

RECURSIVE SeqsUpTo(_, _)
SeqsUpTo(S, n) ==
    IF n = 0 THEN { << >> }
    ELSE LET shorter == SeqsUpTo(S, n - 1)
         IN  shorter \cup {Append(s, e) : s \in {t \in shorter : Len(t) = n - 1}, e \in S}

\* What a caller may pass to Laminate(...).
ListArg(items) == [isList |-> TRUE, items |-> items]

NotAList == [isList |-> FALSE, items |-> <<Pair(0, 1)>>]

Candidates ==
    {ListArg(s) : s \in SeqsUpTo(Entries, MaxPlies)}
        \cup {ListArg(s) : s \in SeqsUpTo(Entries \cup BadEntries, MaxBad)}
        \cup {NotAList}

\* ------------------------------------------------------------ __init__
\* The checks of one loop iteration: ply[0], isinstance, ply[1], isinstance.
CheckEntry(e) ==
    IF ~e.indexable THEN "TypeError"
    ELSE IF Len(e.items) < 1 THEN "IndexError"
    ELSE IF e.items[1].t # "real" THEN "ValueError"
    ELSE IF Len(e.items) < 2 THEN "IndexError"
    ELSE IF e.items[2].t # "ply" THEN "ValueError"
    ELSE "none"

RECURSIVE CheckLoop(_, _)
CheckLoop(items, i) ==
    IF i > Len(items) THEN "none"
    ELSE IF CheckEntry(items[i]) # "none" THEN CheckEntry(items[i])
    ELSE CheckLoop(items, i + 1)

\* The exception __init__ raises on the argument, "none" when it returns.
InitRaises(arg) ==
    IF ~arg.isList THEN "ValueError" ELSE CheckLoop(arg.items, 1)

\* ---------------------------------------------------------- z_position
Thickness(e) == PlyThickness(e.items[2].v)

RECURSIVE TotalThickness(_, _, _)
TotalThickness(l, i, total) ==
    IF i > Len(l) THEN total
    ELSE TotalThickness(l, i + 1, Fl(total + Thickness(l[i])))

RECURSIVE PlyPositions(_, _, _, _)
PlyPositions(l, i, current_z, ply_position) ==
    IF i > Len(l) THEN ply_position
    ELSE LET z == Fl(current_z + Thickness(l[i]))
         IN  PlyPositions(l, i + 1, z, Append(ply_position, z))

\* z_position with the offset -total_thickness, the halving left out.
z_positionFromTop(l) ==
    LET total_thickness == TotalThickness(l, 1, 0)
        current_z == -total_thickness
    IN  PlyPositions(l, 1, current_z, <<current_z>>)

z_position(l) ==
    LET total_thickness == TotalThickness(l, 1, 0)
        current_z == -(total_thickness \div 2)
    IN  PlyPositions(l, 1, current_z, <<current_z>>)

\* Every content the list of the model can have, and z_position on each
\* (computed once).
Layups == SeqsUpTo(Entries \cup {Triple(0, 1)}, MaxPlies)

ZTable == [l \in Layups |-> z_position(l)]

\* ------------------------------------------------------------- matrices
Zeros == << <<0, 0, 0>>, <<0, 0, 0>>, <<0, 0, 0>> >>

Idx == 1..3

\* The 3x3 array with entries f[r, c].
Mat(f) == << <<f[1, 1], f[1, 2], f[1, 3]>>,
             <<f[2, 1], f[2, 2], f[2, 3]>>,
             <<f[3, 1], f[3, 2], f[3, 3]>> >>

\* The operators on matrices take the value of each operand once (m, n, j).

\* numpy's a += b and k*b on float64 arrays: one rounded operation per entry.
MatAdd(M, N) ==
    CHOOSE R \in {Mat([r \in Idx, c \in Idx |-> Fl(m[r][c] + n[r][c])]) : m \in {M}, n \in {N}} : TRUE

MatScale(k, M) ==
    CHOOSE R \in {Mat([r \in Idx, c \in Idx |-> Fl(j * m[r][c])]) : j \in {k}, m \in {M}} : TRUE

\* The matrix product a @ b, summed left to right.
MatMul(M, N) ==
    CHOOSE R \in {Mat([r \in Idx, c \in Idx |->
                          Fl(Fl(Fl(m[r][1] * n[1][c]) + Fl(m[r][2] * n[2][c]))
                             + Fl(m[r][3] * n[3][c]))]) : m \in {M}, n \in {N}} : TRUE

Det3(M) ==
      M[1][1] * (M[2][2] * M[3][3] - M[2][3] * M[3][2])
    - M[1][2] * (M[2][1] * M[3][3] - M[2][3] * M[3][1])
    + M[1][3] * (M[2][1] * M[3][2] - M[2][2] * M[3][1])

\* np.linalg.inv on a matrix with determinant +-1 and integer entries.
Inv3(M) ==
    LET Next3(i) == (i % 3) + 1
        Cof(r, c) == M[Next3(r)][Next3(c)] * M[Next3(Next3(r))][Next3(Next3(c))]
                   - M[Next3(r)][Next3(Next3(c))] * M[Next3(Next3(r))][Next3(c)]
    IN  Mat([r \in Idx, c \in Idx |-> Cof(c, r) \div Det3(M)])

\* ------------------------------------------------------------- Q_layup
\* np.cos and np.sin of theta degrees, for the angles of the model (multiples
\* of 90, where the mathematical values are 0 and +-1).
Cos(theta) ==
    CASE theta % 360 = 0 -> 1 [] theta % 360 = 180 -> -1 [] OTHER -> 0

Sin(theta) ==
    CASE theta % 360 = 90 -> 1 [] theta % 360 = 270 -> -1 [] OTHER -> 0

T_real(c, s) ==
    << <<c * c, s * s, 2 * c * s>>,
       <<s * s, c * c, -2 * c * s>>,
       <<-c * s, c * s, c * c - s * s>> >>

T_engineering(c, s) ==
    << <<c * c, s * s, c * s>>,
       <<s * s, c * c, -c * s>>,
       <<-2 * c * s, 2 * c * s, c * c - s * s>> >>

\* Rotated with the sine and the cosine taken for each other.
RotatedSinCos(theta) ==
    LET c == Sin(theta[1].v)
        s == Cos(theta[1].v)
    IN  MatMul(MatMul(Inv3(T_real(c, s)), PlyQ_0(theta[2].v)), T_engineering(c, s))

\* The matrix appended for one entry of the layup (line 96).
Rotated(theta) ==
    LET c == Cos(theta[1].v)
        s == Sin(theta[1].v)
    IN  MatMul(MatMul(Inv3(T_real(c, s)), PlyQ_0(theta[2].v)), T_engineering(c, s))

\* Rotated on every angle and ply of the model (computed once).
RotatedTable == [a \in Angles, p \in Plies |-> Rotated(<<RealVal(a), PlyVal(p)>>)]

RECURSIVE RotateAll(_, _, _)
RotateAll(l, i, out) ==
    IF i > Len(l) THEN out
    ELSE RotateAll(l, i + 1, Append(out, RotatedTable[l[i].items[1].v, l[i].items[2].v]))

\* The list the first access to Q_layup builds from the layup.
ComputeQ_layup(l) == RotateAll(l, 1, << >>)

QTable == [l \in Layups |-> ComputeQ_layup(l)]

\* ------------------------------------------------------------- A, B, D
\* Weight with the squares of B also used for D.
WeightSquaresInD(kind, zk1, zk0) ==
    CASE kind = "A" -> Fl(zk1 - zk0)
      [] kind = "B" -> Fl(Fl(zk1 * zk1) - Fl(zk0 * zk0))
      [] kind = "D" -> Fl(ThirdMant * Fl(Fl(zk1 * zk1) - Fl(zk0 * zk0)))

\* Weight with the second square of B left out.
WeightNoSquare(kind, zk1, zk0) ==
    CASE kind = "A" -> Fl(zk1 - zk0)
      [] kind = "B" -> Fl(Fl(zk1 * zk1) - zk0)
      [] kind = "D" -> Fl(ThirdMant * Fl(Fl(zk1 * zk1 * zk1) - Fl(zk0 * zk0 * zk0)))

\* The scalar that multiplies Q_layup[i] in lines 107, 118 and 129 (B is
\* held doubled and D times 2^(MantBits+1), see the head of the module).
Weight(kind, zk1, zk0) ==
    CASE kind = "A" -> Fl(zk1 - zk0)
      [] kind = "B" -> Fl(Fl(zk1 * zk1) - Fl(zk0 * zk0))
      [] kind = "D" -> Fl(ThirdMant * Fl(Fl(zk1 * zk1 * zk1) - Fl(zk0 * zk0 * zk0)))

\* The loop "for i in enumerate(self.Q_layup)": i counts from 0; st.v is the
\* cache being accumulated in place, st.exc the exception that ends the loop,
\* st.zc the number of times z_position was derived.
RECURSIVE AccLoop(_, _, _, _, _)
AccLoop(kind, Q, l, i, st) ==
    IF i >= Len(Q) THEN st
    ELSE LET z == ZTable[l]
         IN  IF i + 1 >= Len(z)
             THEN [st EXCEPT !.exc = "IndexError", !.zc = @ + 1]
             ELSE AccLoop(kind, Q, l, i + 1,
                      [st EXCEPT !.v = MatAdd(@, MatScale(Weight(kind, z[i + 2], z[i + 1]),
                                                          Q[i + 1])),
                                 !.zc = @ + 2])

Kinds == {"A", "B", "D"}

AccStart == [v |-> Zeros, exc |-> "none", zc |-> 0]

\* The loop on the layup's own Q_layup (computed once).
AccTable == [kind \in Kinds, l \in Layups |-> AccLoop(kind, QTable[l], l, 0, AccStart)]

\* The loop of A, B or D on the cached Q_layup and the layup as it is now.
Accumulate(kind, Q, l) ==
    IF Q = QTable[l] THEN AccTable[kind, l] ELSE AccLoop(kind, Q, l, 0, AccStart)

\* ----------------------------------------------------------------- state
VARIABLES
    pc,          \* "new" before Laminate(...), then "ok" or "failed"
    layup,       \* the list object the caller passed; self.layup is this object
    _Q_layup,    \* self._Q_layup
    _A,          \* self._A
    _B,          \* self._B
    _D,          \* self._D
    ret,         \* the last operation: what it was, what it returned or raised
    layup0,      \* history: the content of the list when __init__ returned
    nMut,        \* history: modifications of the list by the caller
    first,       \* history: the first value each property returned
    nRot,        \* history: times the rotation loop of Q_layup ran (up to CountCap)
    nAcc         \* history: times each accumulation loop ran (up to CountCap)

vars == <<pc, layup, _Q_layup, _A, _B, _D, ret, layup0, nMut, first, nRot, nAcc>>

None == [set |-> FALSE, v |-> << >>]

Some(v) == [set |-> TRUE, v |-> v]

Properties == {"z_position", "Q_layup", "A", "B", "D"}

Bump(n, k) == Min(n + k, CountCap)

\* What the last operation did: its name, the exception it raised, the value
\* it returned, the number of times it derived z_position, the loops it ran
\* ("Q" for the rotation loop) and its argument.
Ret(op, exc, val, zc, ran, arg) ==
    [op |-> op, exc |-> exc, val |-> val, zc |-> zc, ran |-> ran, arg |-> arg]

\* The first value of a property is recorded while the list is as constructed.
Record(name, exc, val) ==
    IF nMut = 0 /\ exc = "none" /\ ~first[name].set
    THEN [first EXCEPT ![name] = Some(val)]
    ELSE first

Init ==
    /\ pc = "new"
    /\ layup = << >>
    /\ _Q_layup = None /\ _A = None /\ _B = None /\ _D = None
    /\ ret = Ret("none", "none", << >>, 0, {}, << >>)
    /\ layup0 = << >>
    /\ nMut = 0
    /\ first = [n \in Properties |-> None]
    /\ nRot = 0
    /\ nAcc = [k \in Kinds |-> 0]

\* Laminate(arg), lines 43-61.
__init__(arg) ==
    /\ pc = "new"
    /\ \E exc \in {InitRaises(arg)} :
           /\ pc' = IF exc = "none" THEN "ok" ELSE "failed"
           /\ layup' = IF exc = "none" THEN arg.items ELSE layup
           /\ layup0' = IF exc = "none" THEN arg.items ELSE layup0
           /\ ret' = Ret("__init__", exc, << >>, 0, {}, arg)
    /\ _Q_layup' = None /\ _A' = None /\ _B' = None /\ _D' = None
    /\ UNCHANGED <<nMut, first, nRot, nAcc>>

\* laminate.z_position, lines 64-77: derived anew at every access.
Access_z_position ==
    /\ pc = "ok"
    /\ ret' = Ret("z_position", "none", ZTable[layup], 1, {}, << >>)
    /\ first' = Record("z_position", "none", ZTable[layup])
    /\ UNCHANGED <<pc, layup, _Q_layup, _A, _B, _D, layup0, nMut, nRot, nAcc>>

\* Q_layup without the test of the cache.
Q_layupUncached(cache, l) == [cache |-> Some(QTable[l]), ran |-> 1]

\* self.Q_layup, lines 80-97: the cache after the access, and whether the
\* rotation loop ran.
Q_layup(cache, l) ==
    IF cache.set THEN [cache |-> cache, ran |-> 0]
    ELSE [cache |-> Some(QTable[l]), ran |-> 1]

Access_Q_layup ==
    /\ pc = "ok"
    /\ \E q \in {Q_layup(_Q_layup, layup)} :
           /\ _Q_layup' = q.cache
           /\ nRot' = Bump(nRot, q.ran)
           /\ ret' = Ret("Q_layup", "none", q.cache.v, 0,
                         IF q.ran = 1 THEN {"Q"} ELSE {}, << >>)
           /\ first' = Record("Q_layup", "none", q.cache.v)
    /\ UNCHANGED <<pc, layup, _A, _B, _D, layup0, nMut, nAcc>>

\* What an access to A, B or D leaves and returns: the cache of the property,
\* the cache of Q_layup, the exception raised, the value returned, and what
\* ran (zc: derivations of z_position; rot, acc: the loops).
Unread(cache, Qcache, exc) ==
    [cache |-> cache, Q |-> Qcache, exc |-> exc, val |-> << >>,
     zc |-> 0, rot |-> 0, acc |-> 0, ran |-> {}]

Computed(kind, q, st) ==
    [cache |-> Some(st.v), Q |-> q.cache, exc |-> st.exc,
     val |-> IF st.exc = "none" THEN st.v ELSE << >>,
     zc |-> st.zc, rot |-> q.ran, acc |-> 1,
     ran |-> {kind} \cup (IF q.ran = 1 THEN {"Q"} ELSE {})]

\* Property without the test of the cache: the loop runs at every access and
\* adds to what the cache holds.
PropertyReaccumulate(kind, cache, Qcache, l) ==
    CHOOSE r \in {[Computed(kind, q, st) EXCEPT
                      !.cache = IF cache.set THEN Some(MatAdd(cache.v, st.v)) ELSE @,
                      !.val = IF cache.set THEN MatAdd(cache.v, st.v) ELSE @] :
                      q \in {Q_layup(Qcache, l)},
                      st \in {Accumulate(kind, Q_layup(Qcache, l).cache.v, l)}} : TRUE

\* self.A, self.B, self.D, lines 100-130, on the cache of the property and
\* the cache of Q_layup.  The cache is assigned before the loop and
\* accumulated in place, so it keeps what was summed when the loop raises.
Property(kind, cache, Qcache, l) ==
    IF cache.set
    THEN [Unread(cache, Qcache, "none") EXCEPT !.val = cache.v]
    ELSE CHOOSE r \in {Computed(kind, q, st) :
                          q \in {Q_layup(Qcache, l)},
                          st \in {Accumulate(kind, Q_layup(Qcache, l).cache.v, l)}} : TRUE

Access_A ==
    /\ pc = "ok"
    /\ \E r \in {Property("A", _A, _Q_layup, layup)} :
           /\ _A' = r.cache
           /\ _Q_layup' = r.Q
           /\ ret' = Ret("A", r.exc, r.val, r.zc, r.ran, << >>)
           /\ first' = Record("A", r.exc, r.val)
           /\ nRot' = Bump(nRot, r.rot)
           /\ nAcc' = [nAcc EXCEPT !["A"] = Bump(@, r.acc)]
    /\ UNCHANGED <<pc, layup, _B, _D, layup0, nMut>>

Access_B ==
    /\ pc = "ok"
    /\ \E r \in {Property("B", _B, _Q_layup, layup)} :
           /\ _B' = r.cache
           /\ _Q_layup' = r.Q
           /\ ret' = Ret("B", r.exc, r.val, r.zc, r.ran, << >>)
           /\ first' = Record("B", r.exc, r.val)
           /\ nRot' = Bump(nRot, r.rot)
           /\ nAcc' = [nAcc EXCEPT !["B"] = Bump(@, r.acc)]
    /\ UNCHANGED <<pc, layup, _A, _D, layup0, nMut>>

Access_D ==
    /\ pc = "ok"
    /\ \E r \in {Property("D", _D, _Q_layup, layup)} :
           /\ _D' = r.cache
           /\ _Q_layup' = r.Q
           /\ ret' = Ret("D", r.exc, r.val, r.zc, r.ran, << >>)
           /\ first' = Record("D", r.exc, r.val)
           /\ nRot' = Bump(nRot, r.rot)
           /\ nAcc' = [nAcc EXCEPT !["D"] = Bump(@, r.acc)]
    /\ UNCHANGED <<pc, layup, _A, _B, layup0, nMut>>

\* The first values of A, B and D after print_ABD read them.
RecordPrinted(exc, a, b, d) ==
    IF nMut = 0 /\ exc = "none"
    THEN [first EXCEPT !["A"] = IF @.set THEN @ ELSE Some(a),
                       !["B"] = IF @.set THEN @ ELSE Some(b),
                       !["D"] = IF @.set THEN @ ELSE Some(d)]
    ELSE first

\* laminate.print_ABD(), lines 143-151: reads A, then B, then D; an exception
\* ends it where it is raised.  ret.val is what was printed.
print_ABD ==
    /\ pc = "ok"
    /\ \E a \in {Property("A", _A, _Q_layup, layup)} :
       \E b \in {IF a.exc = "none" THEN Property("B", _B, a.Q, layup)
                 ELSE Unread(_B, a.Q, a.exc)} :
       \E d \in {IF b.exc = "none" THEN Property("D", _D, b.Q, layup)
                 ELSE Unread(_D, b.Q, b.exc)} :
           /\ _A' = a.cache /\ _B' = b.cache /\ _D' = d.cache
           /\ _Q_layup' = d.Q
           /\ ret' = Ret("print_ABD", d.exc,
                         IF d.exc = "none" THEN <<a.val, b.val, d.val>> ELSE << >>,
                         a.zc + b.zc + d.zc, a.ran \cup b.ran \cup d.ran, << >>)
           /\ first' = RecordPrinted(d.exc, a.val, b.val, d.val)
           /\ nRot' = Bump(nRot, a.rot + b.rot + d.rot)
           /\ nAcc' = [nAcc EXCEPT !["A"] = Bump(@, a.acc), !["B"] = Bump(@, b.acc),
                                   !["D"] = Bump(@, d.acc)]
    /\ UNCHANGED <<pc, layup, layup0, nMut>>

\* ---------------------------------------------------------------- __eq__
\* Another Laminate, as __eq__ sees it: its layup, and whether its derived
\* properties have been computed.
Laminate(l, cached) == [isLaminate |-> TRUE, layup |-> l, cached |-> cached]

NotALaminate == [isLaminate |-> FALSE, layup |-> << >>, cached |-> FALSE]

Reverse(l) == [i \in 1..Len(l) |-> l[Len(l) + 1 - i]]

OtherAngle(a) == IF a = 0 THEN 90 ELSE 0

OtherPly(p) == IF p = 1 THEN 2 ELSE 1

WithAngle(l, k) ==
    [l EXCEPT ![k] = TupleOf([@.items EXCEPT ![1] = RealVal(OtherAngle(@.v))])]

WithPly(l, k) ==
    [l EXCEPT ![k] = TupleOf([@.items EXCEPT ![2] = PlyVal(OtherPly(@.v))])]

\* The entries cut to their first two elements.
AsPairs(l) == [i \in 1..Len(l) |-> TupleOf(SubSeq(l[i].items, 1, 2))]

\* The layups the laminate is compared with: a copy of its own, and its own
\* reversed, cut to pairs, shortened (extended when empty), and changed in
\* one angle or one ply.
OtherLayups(l) ==
    {l, Reverse(l), AsPairs(l)}
        \cup (IF l = << >> THEN {Append(l, Pair(0, 1))}
              ELSE {SubSeq(l, 1, Len(l) - 1), WithAngle(l, 1), WithPly(l, Len(l))})

Others(l) ==
    {Laminate(o, c) : o \in OtherLayups(l), c \in BOOLEAN} \cup {NotALaminate}

\* Comparing only the lengths of the layups.
EqLengths(self_layup, other) ==
    IF other.isLaminate THEN Len(self_layup) = Len(other.layup) ELSE "NotImplemented"

\* self == other, lines 137-140: list equality of the two layups.
Eq(self_layup, other) ==
    IF other.isLaminate THEN self_layup = other.layup ELSE "NotImplemented"

__eq__(other) ==
    /\ pc = "ok"
    /\ ret' = Ret("__eq__", "none", Eq(layup, other), 0, {}, other)
    /\ UNCHANGED <<pc, layup, _Q_layup, _A, _B, _D, layup0, nMut, first, nRot, nAcc>>

\* ------------------------------------------------------------ the caller
\* The caller still holds the list it passed: list.append(entry), list.pop().
CallerAppend(e) ==
    /\ pc = "ok"
    /\ nMut < MaxMut
    /\ Len(layup) < MaxPlies
    /\ layup' = Append(layup, e)
    /\ nMut' = nMut + 1
    /\ ret' = Ret("append", "none", << >>, 0, {}, << >>)
    /\ UNCHANGED <<pc, _Q_layup, _A, _B, _D, layup0, first, nRot, nAcc>>

CallerPop ==
    /\ pc = "ok"
    /\ nMut < MaxMut
    /\ layup # << >>
    /\ layup' = SubSeq(layup, 1, Len(layup) - 1)
    /\ nMut' = nMut + 1
    /\ ret' = Ret("pop", "none", << >>, 0, {}, << >>)
    /\ UNCHANGED <<pc, _Q_layup, _A, _B, _D, layup0, first, nRot, nAcc>>

\* The Laminate and a caller that leaves the list it passed alone.
Next ==
    \/ \E arg \in Candidates : __init__(arg)
    \/ Access_z_position
    \/ Access_Q_layup
    \/ Access_A
    \/ Access_B
    \/ Access_D
    \/ print_ABD
    \/ \E other \in Others(layup) : __eq__(other)

Spec == Init /\ [][Next]_vars

\* The Laminate and a caller that goes on using the list it passed.
NextCaller ==
    \/ \E arg \in Candidates : __init__(arg)
    \/ Access_z_position
    \/ Access_Q_layup
    \/ Access_A
    \/ Access_B
    \/ Access_D
    \/ print_ABD
    \/ \E e \in Entries : CallerAppend(e)
    \/ CallerPop

SpecCaller == Init /\ [][NextCaller]_vars

\* ================================================================ claims
AngleOf(e) == e.items[1].v

PlyOf(e) == e.items[2].v

RECURSIVE ExactSum(_, _)
ExactSum(l, i) == IF i > Len(l) THEN 0 ELSE Thickness(l[i]) + ExactSum(l, i + 1)

\* The sum of the thicknesses, without rounding.
SumOfThickness(l) == ExactSum(l, 1)

\* C1 as stated: at every access z_position has N+1 entries, starts at minus
\* half the sum of the thicknesses, ends at plus half that sum, and each step
\* is exactly the thickness of the ply.
C1_ExactBoundaries ==
    ret.op = "z_position" =>
        LET z == ret.val
            N == Len(layup)
        IN  /\ Len(z) = N + 1
            /\ 2 * z[1] = -SumOfThickness(layup)
            /\ 2 * z[N + 1] = SumOfThickness(layup)
            /\ \A i \in 1..N : z[i + 1] - z[i] = Thickness(layup[i])

\* C1 amended: z_position has N+1 entries; its first entry is minus half the
\* floating-point sum of the thicknesses; each next entry is the floating-point
\* sum of the entry before it and the ply's thickness (within half a unit in
\* the last place of the exact sum), so the entries never decrease; and when
\* the sum of the thicknesses is below Radix (no addition rounds) the steps
\* are exactly the thicknesses, the ends are exactly -/+ half the sum, and
\* the entries increase strictly.
C1_RoundedBoundaries ==
    ret.op = "z_position" =>
        LET z == ret.val
            N == Len(layup)
        IN  /\ Len(z) = N + 1
            /\ 2 * z[1] = -TotalThickness(layup, 1, 0)
            /\ \A i \in 1..N :
                   /\ z[i + 1] >= z[i]
                   /\ 2 * Abs(z[i + 1] - (z[i] + Thickness(layup[i])))
                          <= Ulp(z[i] + Thickness(layup[i]))
            /\ SumOfThickness(layup) < Radix =>
                   /\ 2 * z[1] = -SumOfThickness(layup)
                   /\ 2 * z[N + 1] = SumOfThickness(layup)
                   /\ \A i \in 1..N : z[i + 1] - z[i] = Thickness(layup[i])
                   /\ \A i \in 1..N : z[i + 1] > z[i]

\* z_position was read on three plies whose thicknesses do not sum exactly.
C1_Witness ==
    /\ ret.op = "z_position"
    /\ Len(layup) = 3
    /\ 2 * ret.val[4] # SumOfThickness(layup)

\* The sums of C2, entry by entry: over the plies in layup order, the weight
\* of the ply (written with powers) times the entry of its rotated matrix.
RefWeight(kind, zk1, zk0) ==
    IF kind = "A" THEN Fl(zk1 - zk0)
    ELSE IF kind = "B" THEN Fl(Fl(zk1 ^ 2) - Fl(zk0 ^ 2))
    ELSE Fl(ThirdMant * Fl(Fl(zk1 ^ 3) - Fl(zk0 ^ 3)))

RECURSIVE RefEntry(_, _, _, _, _, _)
RefEntry(kind, l, r, c, i, sum) ==
    IF i > Len(l) THEN sum
    ELSE RefEntry(kind, l, r, c, i + 1,
                  Fl(sum + Fl(RefWeight(kind, ZTable[l][i + 1], ZTable[l][i])
                                * QTable[l][i][r][c])))

RefTable ==
    [kind \in Kinds, l \in Layups |->
        Mat([r \in Idx, c \in Idx |-> RefEntry(kind, l, r, c, 1, 0)])]

\* C2: what A, B and D return is, entry by entry, the sum over the plies in
\* layup order of (zk1 - zk0), (1/2)(zk1^2 - zk0^2) and (1/3)(zk1^3 - zk0^3)
\* times Q_layup[i], from the zero matrix (zero for the empty layup).
C2_ReferenceSums ==
    ret.op \in Kinds => ret.exc = "none" /\ ret.val = RefTable[ret.op, layup]

\* D was read on a layup of at least two plies.
C2_Witness ==
    /\ ret.op = "D"
    /\ Len(layup) >= 2
    /\ ret.val # Zeros

\* Ply i and ply N-1-i have the same angle and the same Ply.
Symmetric(l) ==
    \A i \in 1..Len(l) :
        /\ AngleOf(l[i]) = AngleOf(l[Len(l) + 1 - i])
        /\ PlyOf(l[i]) = PlyOf(l[Len(l) + 1 - i])

RECURSIVE MaxAbs(_, _)
MaxAbs(S, m) ==
    IF S = {} THEN m
    ELSE LET x == CHOOSE y \in S : TRUE
         IN  MaxAbs(S \ {x}, IF Abs(x) > m THEN Abs(x) ELSE m)

\* The largest magnitude among the entries of the rotated matrices.
QMax(l) == MaxAbs({QTable[l][i][r][c] : i \in 1..Len(l), r \in Idx, c \in Idx}, 0)

Antisymmetric(z) == \A i \in 1..Len(z) : z[i] = -z[Len(z) + 1 - i]

Malformed(arg) ==
    \/ ~arg.isList
    \/ \E i \in 1..Len(arg.items) :
           \/ ~arg.items[i].indexable
           \/ Len(arg.items[i].items) # 2
           \/ arg.items[i].items[1].t # "real"
           \/ arg.items[i].items[2].t # "ply"

\* C4: Laminate(arg) raises the one error of invalid input (ValueError) and
\* makes no Laminate for every malformed layup, and succeeds on every other.
C4_MalformedRejected ==
    ret.op = "__init__" =>
        IF Malformed(ret.arg) THEN ret.exc = "ValueError" /\ pc = "failed"
        ELSE ret.exc = "none" /\ pc = "ok"

\* C5: after construction the layup of the Laminate is what it was when
\* __init__ returned, whatever is done afterwards, the caller changing the
\* list it passed included.
C5_LayupUnchanged ==
    pc = "ok" => layup = layup0

\* C6: every access to z_position, Q_layup, A, B or D returns the value the
\* first access to that property returned, and print_ABD prints the first
\* values of A, B and D, in any interleaving of the accesses.
C6_SameAsFirst ==
    /\ ret.op \in Properties =>
           /\ ret.exc = "none"
           /\ first[ret.op].set
           /\ ret.val = first[ret.op].v
    /\ ret.op = "print_ABD" =>
           ret.val = <<first["A"].v, first["B"].v, first["D"].v>>

\* D was read again (no loop ran) on a layup of at least two plies.
C6_Witness ==
    /\ ret.op = "D"
    /\ ret.ran = {}
    /\ Len(layup) >= 2
    /\ ret.val # Zeros

\* C7: once constructed, every access to z_position, Q_layup, A, B and D
\* completes without an exception, in every state the operations reach.
C7_AccessNeverRaises ==
    pc = "ok" /\ ret.op \in Properties => ret.exc = "none"

\* The two layups agree in length and, at every position, in angle and Ply.
SameEntries(l, m) ==
    /\ Len(l) = Len(m)
    /\ \A i \in 1..Len(l) :
           AngleOf(l[i]) = AngleOf(m[i]) /\ PlyOf(l[i]) = PlyOf(m[i])

\* Every entry is an (angle, Ply) pair.
PairsOnly(l) == \A i \in 1..Len(l) : Len(l[i].items) = 2

C9_ZeroAngleIsQ_0 ==
    ret.op = "Q_layup" =>
        /\ Len(ret.val) = Len(layup)
        /\ \A i \in 1..Len(layup) :
               AngleOf(layup[i]) = 0 => ret.val[i] = PlyQ_0(PlyOf(layup[i]))

\* Q_layup was read on a layup with two different plies at 0 degrees and a
\* ply at another angle.
C9_Witness ==
    /\ ret.op = "Q_layup"
    /\ \E i \in 1..Len(layup), j \in 1..Len(layup), k \in 1..Len(layup) :
           /\ AngleOf(layup[i]) = 0 /\ AngleOf(layup[j]) = 0
           /\ PlyOf(layup[i]) # PlyOf(layup[j])
           /\ AngleOf(layup[k]) # 0

CacheOf(kind) == IF kind = "A" THEN _A ELSE IF kind = "B" THEN _B ELSE _D

\* The part of C10 on the caches: construction computes nothing, the rotation
\* loop and each accumulation loop have run once when their cache is set and
\* not at all before, and an access to A, B or D runs no loop but its own and
\* the rotation loop.
C10_LazyCaches ==
    /\ nRot = IF _Q_layup.set THEN 1 ELSE 0
    /\ \A k \in Kinds : nAcc[k] = IF CacheOf(k).set THEN 1 ELSE 0
    /\ ret.op = "__init__" /\ pc = "ok" =>
           ~_Q_layup.set /\ \A k \in Kinds : ~CacheOf(k).set
    /\ ret.op \in Kinds => ret.ran \subseteq {ret.op, "Q"}
    /\ ret.op \in {"z_position", "__eq__"} => ret.ran = {}

\* C10 as stated: the caches are lazy and independent, and the derivation of
\* the z coordinates is performed once, not again.
C10_ZDerivedOnce ==
    /\ C10_LazyCaches
    /\ ret.zc <= 1

\* C10 amended: the caches of Q_layup, A, B and D are lazy and independent and
\* the rotation is performed once; z_position is not cached: every access
\* derives it, and a loop of A, B or D derives it twice per ply.
C10_ZDerivedAtEachUse ==
    /\ C10_LazyCaches
    /\ ret.op = "z_position" => ret.zc = 1
    /\ ret.op \in Kinds =>
           ret.zc = IF ret.op \in ret.ran THEN 2 * Len(layup) ELSE 0

\* B was first read, on two plies, after A and before D.
C10_Witness ==
    /\ ret.op = "B"
    /\ ret.ran = {"B"}
    /\ Len(layup) = 2
    /\ ret.zc = 4
    /\ _A.set
    /\ ~_D.set

====
